---- MODULE Spec2Model ----
(***************************************************************************)
(* A model of elprep's simple filters (sam/simple-filters.go) and of the   *)
(* split command (cmd/split.go).                                           *)
(*                                                                         *)
(* A Filter takes the Header, may change it, and returns an                *)
(* AlignmentFilter or nil.  An AlignmentFilter is a closure: here a record *)
(* [fn, env] of the function's name and the values it captured.  The       *)
(* strings of the program are TLA+ strings, "chr" + s is "chr" \o s, and a *)
(* Go map[string]T is a function whose domain is the set of its keys.      *)
(***************************************************************************)
EXTENDS Integers, Sequences, FiniteSets, TLC

VARIABLES
    header,   \* the Header: [HD, SQ, RG, PG, UserRecords]
    chain,    \* the configured Filters, in order: each [fn, arg]
    ran,      \* the number of Filters of chain whose header phase has run
    filters,  \* the AlignmentFilters collected so far, in order
    alns,     \* the Alignments, by index
    next,     \* per Alignment: the index in filters of its next AlignmentFilter
    dropped,  \* per Alignment: an AlignmentFilter returned false for it
    hist,     \* the Header as it was before each header phase that ran
    alns0,    \* the Alignments as they were read
    id,       \* AddPGLine's local variable id after its first loop
    cmd       \* the split command: its position and its local variables

vars == <<header, chain, ran, filters, alns, next, dropped, hist, alns0, id, cmd>>

----------------------------------------------------------------------------
(* Bounds of the model.                                                    *)

\* the most records a PG list starts with
MaxPG == 2
\* the most AddPGLine filters in a chain
MaxCalls == 2
\* the most iterations of AddPGLine's collision loop that are followed
MaxRetry == 2

----------------------------------------------------------------------------
(* Go values.                                                              *)

\* m[k] of a Go map: the zero value "" when the key is absent
Get(m, k) == IF k \in DOMAIN m THEN m[k] ELSE ""

\* m[k] = v of a Go map
Put(m, k, v) == [x \in DOMAIN m \cup {k} |-> IF x = k THEN v ELSE m[x]]

\* the empty Go map
EmptyMap == [x \in {} |-> ""]

RECURSIVE FindFrom(_, _, _, _)
FindFrom(s, key, value, i) ==
    IF i > Len(s) THEN -1
    ELSE IF Get(s[i], key) = value THEN i - 1
    ELSE FindFrom(s, key, value, i + 1)

\* utils.Find(s, func(entry utils.StringMap) bool { return entry[key] == value }):
\* the zero-based index of the first such entry of s, or -1
Find(s, key, value) == FindFrom(s, key, value, 1)

Range(s) == {s[i] : i \in DOMAIN s}

----------------------------------------------------------------------------
(* The pipeline: header phases in order, then the AlignmentFilters.        *)

\* the Filter whose header phase runs next
Current == chain[ran + 1]

\* the next Filter to run is fn
HeaderTurn(fn) == ran < Len(chain) /\ Current.fn = fn

\* every header phase has run
HeaderPhaseOver == ran = Len(chain)

\* a Filter's header phase has run: hdr is the Header it leaves, and
\* collected holds the AlignmentFilter it returned (none when it returned nil)
HeaderDone(hdr, collected) ==
    /\ header' = hdr
    /\ ran' = ran + 1
    /\ filters' = filters \o collected
    /\ hist' = Append(hist, header)
    /\ UNCHANGED <<chain, alns, next, dropped, alns0, cmd>>

\* Alignment a is at AlignmentFilter fn, every header phase having run
AlignTurn(a, fn) ==
    /\ HeaderPhaseOver
    /\ ~dropped[a]
    /\ next[a] <= Len(filters)
    /\ filters[next[a]].fn = fn

\* an AlignmentFilter has run on Alignment a: r.aln is the Alignment as it
\* leaves it, r.keep its result, r.env what its closure now holds; the
\* Alignment goes on to the next AlignmentFilter unless the result is false
AlignDone(a, r) ==
    /\ alns' = [alns EXCEPT ![a] = r.aln]
    /\ filters' = [filters EXCEPT ![next[a]].env = r.env]
    /\ next' = [next EXCEPT ![a] = @ + 1]
    /\ dropped' = [dropped EXCEPT ![a] = ~r.keep]
    /\ UNCHANGED <<header, chain, ran, hist, alns0, id, cmd>>

\* Alignment a passed every AlignmentFilter
Kept(a) == HeaderPhaseOver /\ ~dropped[a] /\ next[a] > Len(filters)

\* Alignment a is through the chain, kept or dropped
Finished(a) == dropped[a] \/ Kept(a)

----------------------------------------------------------------------------
(* AddPGLine.                                                              *)

HexDigits == <<"0", "1", "2", "3", "4", "5", "6", "7",
               "8", "9", "a", "b", "c", "d", "e", "f">>

RECURSIVE FormatInt16(_)
\* strconv.FormatInt(n, 16) for n >= 0
FormatInt16(n) ==
    IF n < 16 THEN HexDigits[n + 1]
    ELSE FormatInt16(n \div 16) \o HexDigits[(n % 16) + 1]

\* rand.Int63n(0x10000) draws from 0 .. RandBound - 1
RandBound == 65536

\* the draws of rand.Int63n that are followed
RandDraws == {0, 1, 171, RandBound - 1}

RECURSIVE UniqueIDs(_, _, _)
\* the values id can have when the loop of lines 167-169 ends, within
\* fuel iterations
UniqueIDs(PG, candidate, fuel) ==
    IF Find(PG, "ID", candidate) < 0
    THEN {candidate}
    ELSE IF fuel = 0 THEN {}
    ELSE UNION {UniqueIDs(PG, candidate \o FormatInt16(n), fuel - 1) :
                    n \in RandDraws}

RECURSIVE LinkAfterTail(_, _, _)
\* the loop of lines 170-176 from the i-th record on: newPG with PP set to
\* the ID of the first record whose ID no record has as PP, if there is one
LinkAfterTail(PG, newPG, i) ==
    IF i > Len(PG) THEN newPG
    ELSE LET nextID == Get(PG[i], "ID")
         IN  IF Find(PG, "PP", nextID) < 0
             THEN Put(newPG, "PP", nextID)
             ELSE LinkAfterTail(PG, newPG, i + 1)

\* header.PG after AddPGLine(newPG)'s header phase
AddPGLineHeader(hdr, newPG) ==
    [hdr EXCEPT !.PG = Append(hdr.PG, LinkAfterTail(hdr.PG, newPG, 1))]

AddPGLine ==
    /\ HeaderTurn("AddPGLine")
    /\ \E unique \in UniqueIDs(header.PG, Get(Current.arg, "ID"), MaxRetry) :
          id' = unique
    /\ HeaderDone(AddPGLineHeader(header, Current.arg), <<>>)

----------------------------------------------------------------------------
(* ReplaceReferenceSequenceDictionary.                                     *)

\* header.SetHD_SO(value)
SetHD_SO(hdr, value) == [hdr EXCEPT !.HD = Put(@, "SO", value)]

\* AfterPrevious with >= for >: an entry may repeat the previous one
AfterPreviousMutant(pos, previousPos) == pos >= previousPos

\* line 23: the position of this entry in the old dictionary is after the
\* position of the previous entry that was found there
AfterPrevious(pos, previousPos) == pos > previousPos

RECURSIVE CheckSortingOrder(_, _, _, _)
\* the loop of lines 19-30 from the i-th entry of dict on
CheckSortingOrder(hdr, dict, i, previousPos) ==
    IF i > Len(dict) THEN hdr
    ELSE LET sn == Get(dict[i], "SN")
             pos == Find(hdr.SQ, "SN", sn)
         IN  IF pos >= 0
             THEN IF AfterPrevious(pos, previousPos)
                  THEN CheckSortingOrder(hdr, dict, i + 1, pos)
                  ELSE SetHD_SO(hdr, "unknown")
             ELSE CheckSortingOrder(hdr, dict, i + 1, previousPos)

RECURSIVE MembershipTable(_, _, _)
\* the loop of lines 33-35 from the i-th entry of dict on
MembershipTable(dict, i, dictTable) ==
    IF i > Len(dict) THEN dictTable
    ELSE MembershipTable(dict, i + 1, Put(dictTable, Get(dict[i], "SN"), TRUE))

\* dictTable[name] of a Go map[string]bool
IsMember(dictTable, name) ==
    IF name \in DOMAIN dictTable THEN dictTable[name] ELSE FALSE

\* line 37
ReplaceReferenceSequenceDictionaryFilter(env, aln) ==
    [aln |-> aln, keep |-> IsMember(env.dictTable, aln.RNAME), env |-> env]

\* ReplaceReferenceSequenceDictionaryHeader with the table built from
\* header.SQ before line 36 has replaced it
ReplaceReferenceSequenceDictionaryHeaderMutant(hdr, dict) ==
    LET checked == IF Get(hdr.HD, "SO") = "coordinate"
                   THEN CheckSortingOrder(hdr, dict, 1, -1)
                   ELSE hdr
    IN  [header |-> [checked EXCEPT !.SQ = dict],
         filter |-> [fn |-> "ReplaceReferenceSequenceDictionary",
                     env |-> [dictTable |-> MembershipTable(hdr.SQ, 1, EmptyMap)]]]

\* lines 15-37: the Header as the header phase leaves it, and the closure
ReplaceReferenceSequenceDictionaryHeader(hdr, dict) ==
    LET checked == IF Get(hdr.HD, "SO") = "coordinate"
                   THEN CheckSortingOrder(hdr, dict, 1, -1)
                   ELSE hdr
    IN  [header |-> [checked EXCEPT !.SQ = dict],
         filter |-> [fn |-> "ReplaceReferenceSequenceDictionary",
                     env |-> [dictTable |-> MembershipTable(dict, 1, EmptyMap)]]]

ReplaceReferenceSequenceDictionary ==
    /\ HeaderTurn("ReplaceReferenceSequenceDictionary")
    /\ LET r == ReplaceReferenceSequenceDictionaryHeader(header, Current.arg)
       IN  HeaderDone(r.header, <<r.filter>>)
    /\ UNCHANGED id

ReplaceReferenceSequenceDictionaryAlign(a) ==
    /\ AlignTurn(a, "ReplaceReferenceSequenceDictionary")
    /\ AlignDone(a, ReplaceReferenceSequenceDictionaryFilter(
                        filters[next[a]].env, alns[a]))

----------------------------------------------------------------------------
(* The predicate filters.                                                  *)

\* no variable is captured
NoEnv == EmptyMap

\* line 67; FLAG is the set of the bits that are set
FilterUnmappedReadsFilter(env, aln) ==
    [aln |-> aln, keep |-> "Unmapped" \notin aln.FLAG, env |-> env]

FilterUnmappedReads ==
    /\ HeaderTurn("FilterUnmappedReads")
    /\ HeaderDone(header, <<[fn |-> "FilterUnmappedReads", env |-> NoEnv]>>)
    /\ UNCHANGED id

FilterUnmappedReadsAlign(a) ==
    /\ AlignTurn(a, "FilterUnmappedReads")
    /\ AlignDone(a, FilterUnmappedReadsFilter(filters[next[a]].env, alns[a]))

\* lines 75-77
FilterUnmappedReadsStrictFilter(env, aln) ==
    [aln |-> aln,
     keep |-> "Unmapped" \notin aln.FLAG /\ aln.POS # 0 /\ aln.RNAME # "*",
     env |-> env]

FilterUnmappedReadsStrict ==
    /\ HeaderTurn("FilterUnmappedReadsStrict")
    /\ HeaderDone(header, <<[fn |-> "FilterUnmappedReadsStrict", env |-> NoEnv]>>)
    /\ UNCHANGED id

FilterUnmappedReadsStrictAlign(a) ==
    /\ AlignTurn(a, "FilterUnmappedReadsStrict")
    /\ AlignDone(a, FilterUnmappedReadsStrictFilter(filters[next[a]].env, alns[a]))

\* strings.ContainsAny(s, chars), s and chars being sequences of characters
ContainsAny(s, chars) == \E i \in DOMAIN s : s[i] \in Range(chars)

\* line 85; CIGAR is the sequence of its characters
FilterNonExactMappingReadsFilter(env, aln) ==
    [aln |-> aln,
     keep |-> ~ContainsAny(aln.CIGAR, <<"I", "D", "N", "H", "P", "X", "=">>),
     env |-> env]

FilterNonExactMappingReads ==
    /\ HeaderTurn("FilterNonExactMappingReads")
    /\ HeaderDone(header, <<[fn |-> "FilterNonExactMappingReads", env |-> NoEnv]>>)
    /\ UNCHANGED id

FilterNonExactMappingReadsAlign(a) ==
    /\ AlignTurn(a, "FilterNonExactMappingReads")
    /\ AlignDone(a, FilterNonExactMappingReadsFilter(filters[next[a]].env, alns[a]))

\* TagIs without the test of ok: an absent tag reads as 0
TagIsMutant(TAGS, tag, value) ==
    (IF tag \in DOMAIN TAGS THEN TAGS[tag] ELSE 0) = value

\* lines 106, 109, 112, 115, 118: the tag is present and has this value
TagIs(TAGS, tag, value) == tag \in DOMAIN TAGS /\ TAGS[tag] = value

\* lines 105-122
FilterNonExactMappingReadsStrictFilter(env, aln) ==
    [aln |-> aln,
     keep |-> IF ~TagIs(aln.TAGS, "X0", 1) THEN FALSE
              ELSE IF ~TagIs(aln.TAGS, "X1", 0) THEN FALSE
              ELSE IF ~TagIs(aln.TAGS, "XM", 0) THEN FALSE
              ELSE IF ~TagIs(aln.TAGS, "XO", 0) THEN FALSE
              ELSE IF ~TagIs(aln.TAGS, "XG", 0) THEN FALSE
              ELSE TRUE,
     env |-> env]

FilterNonExactMappingReadsStrict ==
    /\ HeaderTurn("FilterNonExactMappingReadsStrict")
    /\ HeaderDone(header,
                  <<[fn |-> "FilterNonExactMappingReadsStrict", env |-> NoEnv]>>)
    /\ UNCHANGED id

FilterNonExactMappingReadsStrictAlign(a) ==
    /\ AlignTurn(a, "FilterNonExactMappingReadsStrict")
    /\ AlignDone(a, FilterNonExactMappingReadsStrictFilter(
                        filters[next[a]].env, alns[a]))

\* line 130
FilterDuplicateReadsFilter(env, aln) ==
    [aln |-> aln, keep |-> "Duplicate" \notin aln.FLAG, env |-> env]

FilterDuplicateReads ==
    /\ HeaderTurn("FilterDuplicateReads")
    /\ HeaderDone(header, <<[fn |-> "FilterDuplicateReads", env |-> NoEnv]>>)
    /\ UNCHANGED id

FilterDuplicateReadsAlign(a) ==
    /\ AlignTurn(a, "FilterDuplicateReads")
    /\ AlignDone(a, FilterDuplicateReadsFilter(filters[next[a]].env, alns[a]))

\* line 142
FilterOptionalReadsFilter(env, aln) ==
    [aln |-> aln, keep |-> "sr" \notin DOMAIN aln.TAGS, env |-> env]

\* lines 140-145; UserRecords is the set of its keys
FilterOptionalReadsHeader(hdr) ==
    IF "@sr" \in hdr.UserRecords
    THEN [header |-> [hdr EXCEPT !.UserRecords = @ \ {"@sr"}],
          collected |-> <<[fn |-> "FilterOptionalReads", env |-> NoEnv]>>]
    ELSE [header |-> hdr, collected |-> <<>>]

FilterOptionalReads ==
    /\ HeaderTurn("FilterOptionalReads")
    /\ LET r == FilterOptionalReadsHeader(header)
       IN  HeaderDone(r.header, r.collected)
    /\ UNCHANGED id

FilterOptionalReadsAlign(a) ==
    /\ AlignTurn(a, "FilterOptionalReads")
    /\ AlignDone(a, FilterOptionalReadsFilter(filters[next[a]].env, alns[a]))

----------------------------------------------------------------------------
(* AddOrReplaceReadGroup, RenameChromosomes, AddREFID.                     *)

\* aln.SetRG(rg)
SetRG(aln, rg) == [aln EXCEPT !.TAGS = Put(@, "RG", rg)]

\* line 156
AddOrReplaceReadGroupFilter(env, aln) ==
    [aln |-> SetRG(aln, env.id), keep |-> TRUE, env |-> env]

\* lines 154-156
AddOrReplaceReadGroupHeader(hdr, readGroup) ==
    [header |-> [hdr EXCEPT !.RG = <<readGroup>>],
     filter |-> [fn |-> "AddOrReplaceReadGroup",
                 env |-> [id |-> Get(readGroup, "ID")]]]

AddOrReplaceReadGroup ==
    /\ HeaderTurn("AddOrReplaceReadGroup")
    /\ LET r == AddOrReplaceReadGroupHeader(header, Current.arg)
       IN  HeaderDone(r.header, <<r.filter>>)
    /\ UNCHANGED id

AddOrReplaceReadGroupAlign(a) ==
    /\ AlignTurn(a, "AddOrReplaceReadGroup")
    /\ AlignDone(a, AddOrReplaceReadGroupFilter(filters[next[a]].env, alns[a]))

\* lines 193-195 and 196-198: the name as the filter leaves it
RenamedReference(name) ==
    IF name # "=" /\ name # "*" THEN "chr" \o name ELSE name

\* RenameChromosomesFilter with the test of RNEXT inside the test of RNAME
RenameChromosomesFilterMutant(env, aln) ==
    [aln |-> IF aln.RNAME # "=" /\ aln.RNAME # "*"
             THEN [aln EXCEPT !.RNAME = "chr" \o aln.RNAME,
                              !.RNEXT = RenamedReference(aln.RNEXT)]
             ELSE aln,
     keep |-> TRUE,
     env |-> env]

\* lines 192-200
RenameChromosomesFilter(env, aln) ==
    [aln |-> [aln EXCEPT !.RNAME = RenamedReference(aln.RNAME),
                         !.RNEXT = RenamedReference(aln.RNEXT)],
     keep |-> TRUE,
     env |-> env]

\* RenamedEntry with the new name left in the local variable sn
RenamedEntryMutant(entry) == entry

\* lines 188-190
RenamedEntry(entry) ==
    IF "SN" \in DOMAIN entry THEN Put(entry, "SN", "chr" \o entry["SN"]) ELSE entry

\* lines 187-191
RenameChromosomesHeader(hdr) ==
    [hdr EXCEPT !.SQ = [i \in DOMAIN hdr.SQ |-> RenamedEntry(hdr.SQ[i])]]

RenameChromosomes ==
    /\ HeaderTurn("RenameChromosomes")
    /\ HeaderDone(RenameChromosomesHeader(header),
                  <<[fn |-> "RenameChromosomes", env |-> NoEnv]>>)
    /\ UNCHANGED id

RenameChromosomesAlign(a) ==
    /\ AlignTurn(a, "RenameChromosomes")
    /\ AlignDone(a, RenameChromosomesFilter(filters[next[a]].env, alns[a]))

\* aln.SetREFID(value)
SetREFID(aln, value) == [aln EXCEPT !.Temps = Put(@, "REFID", value)]

\* IndexOf counting from 1
IndexOfMutant(i) == i

\* line 210: int32(index), index counting from 0, of the i-th entry
IndexOf(i) == i - 1

RECURSIVE IndexTable(_, _, _)
\* the loop of lines 209-211 from the i-th entry of SQ on
IndexTable(SQ, i, dictTable) ==
    IF i > Len(SQ) THEN dictTable
    ELSE IndexTable(SQ, i + 1, Put(dictTable, Get(SQ[i], "SN"), IndexOf(i)))

\* AddREFIDFilter that stores the -1 of a name it did not find in dictTable
AddREFIDFilterMutant(env, aln) ==
    LET found == aln.RNAME \in DOMAIN env.dictTable
        value == IF found THEN env.dictTable[aln.RNAME] ELSE -1
    IN  [aln |-> SetREFID(aln, value),
         keep |-> TRUE,
         env |-> [env EXCEPT !.dictTable = Put(@, aln.RNAME, value)]]

\* lines 212-219
AddREFIDFilter(env, aln) ==
    LET found == aln.RNAME \in DOMAIN env.dictTable
        value == IF found THEN env.dictTable[aln.RNAME] ELSE -1
    IN  [aln |-> SetREFID(aln, value), keep |-> TRUE, env |-> env]

\* lines 208-211
AddREFIDHeader(hdr) ==
    [fn |-> "AddREFID", env |-> [dictTable |-> IndexTable(hdr.SQ, 1, EmptyMap)]]

AddREFID ==
    /\ HeaderTurn("AddREFID")
    /\ HeaderDone(header, <<AddREFIDHeader(header)>>)
    /\ UNCHANGED id

AddREFIDAlign(a) ==
    /\ AlignTurn(a, "AddREFID")
    /\ AlignDone(a, AddREFIDFilter(filters[next[a]].env, alns[a]))

----------------------------------------------------------------------------
(* The program chains AddPGLine is run on.                                 *)

ProgramIDs == {"bwa", "bwa0", "elprep"}

\* the program records a caller supplies: an ID, and a PP or none
NewPGs ==
    {[ID |-> i] : i \in ProgramIDs} \cup
    {[ID |-> i, PP |-> "stale"] : i \in ProgramIDs}

RECURSIVE Arrangements(_, _)
\* the sequences of n different elements of S
Arrangements(S, n) ==
    IF n = 0 THEN {<<>>}
    ELSE UNION {{Append(s, x) : x \in S \ Range(s)} :
                    s \in Arrangements(S, n - 1)}

\* the chain whose records, first to last, have the IDs ids: each record
\* but the first names its predecessor as PP
ChainOf(ids) ==
    [k \in DOMAIN ids |->
        IF k = 1 THEN [ID |-> ids[k]]
        ELSE [ID |-> ids[k], PP |-> ids[k - 1]]]

\* the PG lists that hold one chain of n records, in any order of the list
ChainsOf(n) ==
    {[k \in 1 .. n |-> ChainOf(ids)[order[k]]] :
        ids \in Arrangements(ProgramIDs, n),
        order \in Arrangements(1 .. n, n)}

\* the sequences over S of a length in lo .. hi
SeqsOf(S, lo, hi) == UNION {[1 .. n -> S] : n \in lo .. hi}

EmptyHeader ==
    [HD |-> EmptyMap, SQ |-> <<>>, RG |-> <<>>, PG |-> <<>>, UserRecords |-> {}]

\* the split command has not been started
CmdIdle == [pc |-> "idle"]

NoAlignments ==
    /\ alns = <<>>
    /\ alns0 = <<>>
    /\ next = <<>>
    /\ dropped = <<>>

\* one Alignment of S has been read
OneAlignment(S) ==
    /\ alns \in {<<aln>> : aln \in S}
    /\ alns0 = alns
    /\ next = <<1>>
    /\ dropped = <<FALSE>>

\* the chain has been configured and nothing has run
NothingRan ==
    /\ ran = 0
    /\ filters = <<>>
    /\ hist = <<>>
    /\ id = ""
    /\ cmd = CmdIdle

InitPG ==
    /\ header \in {[EmptyHeader EXCEPT !.PG = pg] :
                      pg \in UNION {ChainsOf(n) : n \in 0 .. MaxPG}}
    /\ chain \in SeqsOf({[fn |-> "AddPGLine", arg |-> pg] : pg \in NewPGs},
                        1, MaxCalls)
    /\ NothingRan
    /\ NoAlignments

NextPG == AddPGLine

SpecPG == InitPG /\ [][NextPG]_vars

\* the PG list before the first header phase
PG0 == IF hist = <<>> THEN header.PG ELSE hist[1].PG

\* the IDs of the records of a PG list are pairwise different
DistinctIDs(PG) ==
    \A i, j \in DOMAIN PG : i # j => Get(PG[i], "ID") # Get(PG[j], "ID")

\* C1: after AddPGLine's header phase the appended record's ID differs from
\* the ID of every record that was in header.PG before the call.
C1_AppendedIDIsNew ==
    hist # <<>> =>
        LET before == hist[Len(hist)].PG
            appended == header.PG[Len(header.PG)]
        IN  \A i \in DOMAIN before :
                Get(before[i], "ID") # Get(appended, "ID")

\* the records of PG whose ID no record of PG has as PP
Tails(PG) ==
    {i \in DOMAIN PG :
        \A j \in DOMAIN PG : Get(PG[j], "PP") # Get(PG[i], "ID")}

\* C2: from a PG that is one chain of n records, k applications of AddPGLine
\* leave the n records in place, make PG n + k long, and give each appended
\* record as PP the ID of the tail before its application (the first record
\* whose ID is no record's PP); after two applications the second new
\* record's PP is the first new record's ID.
C2_ChainExtended ==
    LET n == Len(PG0)
        k == Len(hist)
    IN  /\ Len(header.PG) = n + k
        /\ \A i \in 1 .. n : header.PG[i] = PG0[i]
        /\ \A j \in 1 .. k :
              LET before == hist[j].PG
                  t == Tails(before)
              IN  t # {} =>
                    Get(header.PG[n + j], "PP") =
                        Get(before[CHOOSE i \in t : \A m \in t : i <= m], "ID")
        /\ (n >= 1 /\ k >= 2) =>
              Get(header.PG[n + 2], "PP") = Get(header.PG[n + 1], "ID")

----------------------------------------------------------------------------
(* ReplaceReferenceSequenceDictionary on a Header and one Alignment.       *)

\* the most entries of a Header's SQ
MaxSQ == 3
\* the most entries of a replacement dictionary
MaxDict == 3

\* the names of the Header's reference sequences
OldNames == {"1", "2", "3"}

\* the names of a replacement dictionary: "X" is new
DictNames == OldNames \cup {"X", "*"}

\* the dictionary whose entries, in order, have the names of sns
Dictionary(sns) == [i \in DOMAIN sns |-> [SN |-> sns[i]]]

\* the SN of each entry, in order
Names(dict) == [i \in DOMAIN dict |-> Get(dict[i], "SN")]

\* an Alignment of reference rname, with no flag set and no tag
Read(rname) ==
    [FLAG |-> {}, POS |-> 1, RNAME |-> rname, RNEXT |-> "=",
     CIGAR |-> <<"4", "M">>, TAGS |-> EmptyMap, Temps |-> EmptyMap]

\* the Headers with a sorting order of SOs and a dictionary over names
HeadersOf(SOs, names, lo, hi) ==
    {[EmptyHeader EXCEPT !.HD = hd, !.SQ = Dictionary(sns)] :
        hd \in {[SO |-> so] : so \in SOs} \cup {EmptyMap},
        sns \in UNION {Arrangements(names, n) : n \in lo .. hi}}

InitDict ==
    /\ header \in HeadersOf({"coordinate", "queryname"}, OldNames, 0, MaxSQ)
    /\ chain \in {<<[fn |-> "ReplaceReferenceSequenceDictionary",
                     arg |-> Dictionary(sns)]>> :
                    sns \in SeqsOf(DictNames, 0, MaxDict)}
    /\ NothingRan
    /\ OneAlignment({Read(rname) : rname \in {"1", "X", "*", "7"}})

NextDict ==
    \/ ReplaceReferenceSequenceDictionary
    \/ \E a \in DOMAIN alns : ReplaceReferenceSequenceDictionaryAlign(a)

SpecDict == InitDict /\ [][NextDict]_vars

\* the position in dict of its entry named sn
PositionIn(dict, sn) == CHOOSE i \in DOMAIN dict : Get(dict[i], "SN") = sn

\* the entries of D that the old dictionary names come in the order of the
\* old dictionary
KeepsOrder(old, D) ==
    LET common == {i \in DOMAIN D : Get(D[i], "SN") \in Range(Names(old))}
    IN  \A i, j \in common :
            i < j => PositionIn(old, Get(D[i], "SN")) < PositionIn(old, Get(D[j], "SN"))

\* C3: for a Header with HD.SO = "coordinate", after the header phase of
\* ReplaceReferenceSequenceDictionary(D), HD.SO is "coordinate" if the entries
\* of D that the old SQ names have strictly increasing old positions, in D's
\* order, and "unknown" if not.
C3_SortingOrder ==
    (ran = 1 /\ Get(hist[1].HD, "SO") = "coordinate") =>
        Get(header.HD, "SO") =
            IF KeepsOrder(hist[1].SQ, chain[1].arg) THEN "coordinate" ELSE "unknown"

\* the spec's example: the first out-of-order entry is followed by one in order
C3_Witness ==
    /\ ran = 1
    /\ Get(hist[1].HD, "SO") = "coordinate"
    /\ Names(hist[1].SQ) = <<"1", "2", "3">>
    /\ Names(chain[1].arg) = <<"2", "1", "3">>
    /\ Get(header.HD, "SO") = "unknown"

\* C4: the header phase leaves header.SQ equal to D, and the AlignmentFilter
\* keeps an Alignment if and only if its RNAME is the SN of an entry of D,
\* without changing the Alignment.
C4_DictionaryReplaced ==
    ran = 1 =>
        /\ header.SQ = chain[1].arg
        /\ \A a \in DOMAIN alns :
              /\ alns[a] = alns0[a]
              /\ Finished(a) =>
                    (Kept(a) <=> alns0[a].RNAME \in Range(Names(chain[1].arg)))

\* an Alignment of RNAME "*" was dropped, the dictionary not naming "*"
C4_Witness ==
    /\ ran = 1
    /\ chain[1].arg # <<>>
    /\ \E a \in DOMAIN alns : dropped[a] /\ alns0[a].RNAME = "*"

----------------------------------------------------------------------------
(* RenameChromosomes on a Header and one Alignment.                        *)

\* the reference names before renaming
PlainNames == {"1", "chr1", "MT"}

\* an Alignment of reference rname whose mate is on reference rnext
Pair(rname, rnext) == [Read(rname) EXCEPT !.RNEXT = rnext]

InitRename ==
    /\ header \in
          {[EmptyHeader EXCEPT !.SQ = extra \o Dictionary(sns)] :
              extra \in {<<>>, <<[LN |-> "16569"]>>},
              sns \in UNION {Arrangements(PlainNames, n) : n \in 0 .. MaxSQ}}
    /\ chain = <<[fn |-> "RenameChromosomes"]>>
    /\ NothingRan
    /\ OneAlignment({Pair(rname, rnext) :
                        rname \in {"1", "chr1", "*", "="},
                        rnext \in {"1", "chr1", "*", "="}})

NextRename ==
    \/ RenameChromosomes
    \/ \E a \in DOMAIN alns : RenameChromosomesAlign(a)

SpecRename == InitRename /\ [][NextRename]_vars

\* name with "chr" put before it, unless it is "*" or "="
Prefixed(name) == IF name \in {"*", "="} THEN name ELSE "chr" \o name

\* C5: RenameChromosomes puts "chr" before every SQ entry's SN and before
\* every RNAME and RNEXT other than "*" and "=", once; it leaves an RNAME or
\* RNEXT of "*" or "=" as it is, RNAME and RNEXT each on its own; the filter
\* returns true.
C5_Renamed ==
    ran = 1 =>
        /\ DOMAIN header.SQ = DOMAIN hist[1].SQ
        /\ \A i \in DOMAIN header.SQ :
              /\ DOMAIN header.SQ[i] = DOMAIN hist[1].SQ[i]
              /\ "SN" \in DOMAIN header.SQ[i] =>
                    header.SQ[i]["SN"] = "chr" \o hist[1].SQ[i]["SN"]
        /\ \A a \in DOMAIN alns :
              next[a] > 1 =>
                /\ alns[a].RNAME = Prefixed(alns0[a].RNAME)
                /\ alns[a].RNEXT = Prefixed(alns0[a].RNEXT)
                /\ Kept(a)

\* an Alignment of RNAME "*" and RNEXT "chr1" went through: RNEXT alone changed
C5_Witness ==
    /\ ran = 1
    /\ Len(header.SQ) > 1
    /\ \E a \in DOMAIN alns :
          /\ Kept(a)
          /\ alns0[a].RNAME = "*" /\ alns[a].RNAME = "*"
          /\ alns0[a].RNEXT = "chr1" /\ alns[a].RNEXT = "chrchr1"

----------------------------------------------------------------------------
(* AddREFID on a Header and one Alignment.                                 *)

\* the names of the Header's reference sequences
ChrNames == {"chrA", "chrB", "chrC"}

InitREFID ==
    /\ header \in HeadersOf({"coordinate"}, ChrNames, 0, MaxSQ)
    /\ chain = <<[fn |-> "AddREFID"]>>
    /\ NothingRan
    /\ OneAlignment({Read(rname) : rname \in ChrNames \cup {"chrZ", "*"}})

NextREFID ==
    \/ AddREFID
    \/ \E a \in DOMAIN alns : AddREFIDAlign(a)

SpecREFID == InitREFID /\ [][NextREFID]_vars

\* the zero-based position in SQ of the entry named rname, -1 if there is none
ReferenceIndex(SQ, rname) ==
    IF \E i \in DOMAIN SQ : Get(SQ[i], "SN") = rname
    THEN PositionIn(SQ, rname) - 1
    ELSE -1

\* C6: for SQ entries of unique SN, AddREFID's AlignmentFilter sets REFID to
\* the zero-based position in header.SQ, as it was in the header phase, of
\* the entry whose SN is the Alignment's RNAME, or to -1 when there is none;
\* it changes no other field and returns true.
C6_REFID ==
    ran = 1 =>
        \A a \in DOMAIN alns :
            IF next[a] > 1
            THEN /\ Kept(a)
                 /\ alns[a] = [alns0[a] EXCEPT !.Temps =
                        [REFID |-> ReferenceIndex(hist[1].SQ, alns0[a].RNAME)]]
            ELSE alns[a] = alns0[a]

\* the spec's example: SQ = [chrA, chrB] gives REFID 1 to a read of chrB
C6_Witness ==
    /\ ran = 1
    /\ Names(hist[1].SQ) = <<"chrA", "chrB">>
    /\ \E a \in DOMAIN alns :
          /\ Kept(a)
          /\ alns0[a].RNAME = "chrB"
          /\ alns[a].Temps["REFID"] = 1

----------------------------------------------------------------------------
(* FilterNonExactMappingReadsStrict on one Alignment.                      *)

StrictTags == {"X0", "X1", "XM", "XO", "XG"}

\* the values a tag is given
TagValues == {0, 1}

\* an Alignment with the tags TAGS
Tagged(TAGS) == [Read("1") EXCEPT !.TAGS = TAGS]

InitStrict ==
    /\ header \in HeadersOf({"coordinate"}, OldNames, 1, 1)
    /\ chain = <<[fn |-> "FilterNonExactMappingReadsStrict"]>>
    /\ NothingRan
    /\ OneAlignment({Tagged(TAGS) :
          TAGS \in UNION {[present -> TagValues] : present \in SUBSET StrictTags}})

NextStrict ==
    \/ FilterNonExactMappingReadsStrict
    \/ \E a \in DOMAIN alns : FilterNonExactMappingReadsStrictAlign(a)

SpecStrict == InitStrict /\ [][NextStrict]_vars

\* C7: FilterNonExactMappingReadsStrict's AlignmentFilter returns true if and
\* only if X0, X1, XM, XO and XG are all present with X0 = 1 and the others 0;
\* it changes neither the Alignment nor the Header.
C7_Strict ==
    ran = 1 =>
        /\ header = hist[1]
        /\ \A a \in DOMAIN alns :
              /\ alns[a] = alns0[a]
              /\ next[a] > 1 =>
                    (Kept(a) <=>
                        /\ StrictTags \subseteq DOMAIN alns0[a].TAGS
                        /\ alns0[a].TAGS["X0"] = 1
                        /\ \A tag \in StrictTags \ {"X0"} : alns0[a].TAGS[tag] = 0)

\* an Alignment with the five tags at the exact values was kept
C7_Witness ==
    /\ ran = 1
    /\ \E a \in DOMAIN alns :
          /\ Kept(a)
          /\ alns0[a].TAGS = [X0 |-> 1, X1 |-> 0, XM |-> 0, XO |-> 0, XG |-> 0]

----------------------------------------------------------------------------
(* The chain ReplaceReferenceSequenceDictionary(D), RenameChromosomes,     *)
(* AddREFID on a Header and one Alignment.                                 *)

\* the names of a replacement dictionary of unique names
UniqueDictNames == {"1", "chr1", "*", "="}

InitChain ==
    /\ header \in HeadersOf({"coordinate"}, OldNames, 1, 1)
    /\ chain \in {<<[fn |-> "ReplaceReferenceSequenceDictionary",
                     arg |-> Dictionary(sns)],
                    [fn |-> "RenameChromosomes"],
                    [fn |-> "AddREFID"]>> :
                    sns \in UNION {Arrangements(UniqueDictNames, n) :
                                      n \in 0 .. MaxDict}}
    /\ NothingRan
    /\ OneAlignment({Read(rname) : rname \in UniqueDictNames \cup {"7"}})

NextChain ==
    \/ ReplaceReferenceSequenceDictionary
    \/ RenameChromosomes
    \/ AddREFID
    \/ \E a \in DOMAIN alns : ReplaceReferenceSequenceDictionaryAlign(a)
    \/ \E a \in DOMAIN alns : RenameChromosomesAlign(a)
    \/ \E a \in DOMAIN alns : AddREFIDAlign(a)

SpecChain == InitChain /\ [][NextChain]_vars

\* Alignment a was dropped by the first AlignmentFilter, unchanged
DroppedAtOnce(a) == dropped[a] /\ next[a] = 2 /\ alns[a] = alns0[a]

\* Alignment a has "chr" before its RNAME, and as REFID the position in the
\* final header.SQ of the entry of that name
RenamedAndIndexed(a) ==
    /\ alns[a].RNAME = "chr" \o alns0[a].RNAME
    /\ "REFID" \in DOMAIN alns[a].Temps
    /\ alns[a].Temps["REFID"] >= 0
    /\ alns[a].Temps["REFID"] = ReferenceIndex(header.SQ, alns[a].RNAME)

\* C10 as claimed: every kept Alignment had an RNAME named in D, ends with
\* "chr" before its RNAME and with REFID >= 0, the position in the final
\* header.SQ of the entry of its final RNAME; an Alignment whose RNAME D does
\* not name is dropped before RenameChromosomes or AddREFID changes it.
C10_Original ==
    \A a \in DOMAIN alns :
        /\ Kept(a) =>
              /\ alns0[a].RNAME \in Range(Names(chain[1].arg))
              /\ RenamedAndIndexed(a)
        /\ (Finished(a) /\ alns0[a].RNAME \notin Range(Names(chain[1].arg))) =>
              DroppedAtOnce(a)

\* C10 as amended: as claimed for an Alignment whose RNAME is neither "*" nor
\* "="; a kept Alignment of RNAME "*" or "=" (D naming it) keeps that RNAME and
\* has REFID -1.
C10_Amended ==
    \A a \in DOMAIN alns :
        /\ Kept(a) =>
              /\ alns0[a].RNAME \in Range(Names(chain[1].arg))
              /\ IF alns0[a].RNAME \in {"*", "="}
                 THEN /\ alns[a].RNAME = alns0[a].RNAME
                      /\ alns[a].Temps = [REFID |-> -1]
                 ELSE RenamedAndIndexed(a)
        /\ (Finished(a) /\ alns0[a].RNAME \notin Range(Names(chain[1].arg))) =>
              DroppedAtOnce(a)

\* a read of "chr1" was kept, renamed "chrchr1" and indexed after another entry
C10_Witness ==
    \E a \in DOMAIN alns :
        /\ Kept(a)
        /\ alns0[a].RNAME = "chr1"
        /\ alns[a].RNAME = "chrchr1"
        /\ alns[a].Temps["REFID"] >= 1

----------------------------------------------------------------------------
(* Chains of any of the filters, and workers that take the Alignments      *)
(* through the AlignmentFilters in any interleaving.                       *)

\* the most Filters in a chain
MaxChain == 2
\* the number of Alignments in flight
NumAlignments == 2

\* the filters as they are configured
ConfiguredFilters ==
    {[fn |-> "ReplaceReferenceSequenceDictionary", arg |-> Dictionary(<<"2", "1">>)],
     [fn |-> "FilterUnmappedReads"],
     [fn |-> "FilterUnmappedReadsStrict"],
     [fn |-> "FilterNonExactMappingReads"],
     [fn |-> "FilterNonExactMappingReadsStrict"],
     [fn |-> "FilterDuplicateReads"],
     [fn |-> "FilterOptionalReads"],
     [fn |-> "AddOrReplaceReadGroup", arg |-> [ID |-> "group1", SM |-> "sample"]],
     [fn |-> "AddPGLine", arg |-> [ID |-> "elprep"]],
     [fn |-> "RenameChromosomes"],
     [fn |-> "AddREFID"]}

\* the Alignments that are read
ReadAlignments ==
    {[Read("1") EXCEPT !.TAGS = [X0 |-> 1, X1 |-> 0, XM |-> 0, XO |-> 0, XG |-> 0]],
     [Read("3") EXCEPT !.FLAG = {"Duplicate"}, !.CIGAR = <<"2", "M", "1", "I", "1", "M">>],
     [Read("*") EXCEPT !.FLAG = {"Unmapped"}, !.POS = 0, !.RNEXT = "*",
                       !.TAGS = [sr |-> 1]]}

InitPar ==
    /\ header = [HD |-> [SO |-> "coordinate"],
                 SQ |-> Dictionary(<<"1", "2", "3">>),
                 RG |-> <<>>,
                 PG |-> <<[ID |-> "bwa"]>>,
                 UserRecords |-> {"@sr"}]
    /\ chain \in SeqsOf(ConfiguredFilters, 1, MaxChain)
    /\ NothingRan
    /\ alns \in [1 .. NumAlignments -> ReadAlignments]
    /\ alns0 = alns
    /\ next = [a \in 1 .. NumAlignments |-> 1]
    /\ dropped = [a \in 1 .. NumAlignments |-> FALSE]

NextPar ==
    \/ ReplaceReferenceSequenceDictionary
    \/ FilterUnmappedReads
    \/ FilterUnmappedReadsStrict
    \/ FilterNonExactMappingReads
    \/ FilterNonExactMappingReadsStrict
    \/ FilterDuplicateReads
    \/ FilterOptionalReads
    \/ AddOrReplaceReadGroup
    \/ AddPGLine
    \/ RenameChromosomes
    \/ AddREFID
    \/ \E a \in DOMAIN alns : ReplaceReferenceSequenceDictionaryAlign(a)
    \/ \E a \in DOMAIN alns : FilterUnmappedReadsAlign(a)
    \/ \E a \in DOMAIN alns : FilterUnmappedReadsStrictAlign(a)
    \/ \E a \in DOMAIN alns : FilterNonExactMappingReadsAlign(a)
    \/ \E a \in DOMAIN alns : FilterNonExactMappingReadsStrictAlign(a)
    \/ \E a \in DOMAIN alns : FilterDuplicateReadsAlign(a)
    \/ \E a \in DOMAIN alns : FilterOptionalReadsAlign(a)
    \/ \E a \in DOMAIN alns : AddOrReplaceReadGroupAlign(a)
    \/ \E a \in DOMAIN alns : RenameChromosomesAlign(a)
    \/ \E a \in DOMAIN alns : AddREFIDAlign(a)

SpecPar == InitPar /\ [][NextPar]_vars

\* the AlignmentFilter f on aln
Apply(f, aln) ==
    CASE f.fn = "ReplaceReferenceSequenceDictionary" ->
            ReplaceReferenceSequenceDictionaryFilter(f.env, aln)
      [] f.fn = "FilterUnmappedReads" -> FilterUnmappedReadsFilter(f.env, aln)
      [] f.fn = "FilterUnmappedReadsStrict" ->
            FilterUnmappedReadsStrictFilter(f.env, aln)
      [] f.fn = "FilterNonExactMappingReads" ->
            FilterNonExactMappingReadsFilter(f.env, aln)
      [] f.fn = "FilterNonExactMappingReadsStrict" ->
            FilterNonExactMappingReadsStrictFilter(f.env, aln)
      [] f.fn = "FilterDuplicateReads" -> FilterDuplicateReadsFilter(f.env, aln)
      [] f.fn = "FilterOptionalReads" -> FilterOptionalReadsFilter(f.env, aln)
      [] f.fn = "AddOrReplaceReadGroup" -> AddOrReplaceReadGroupFilter(f.env, aln)
      [] f.fn = "RenameChromosomes" -> RenameChromosomesFilter(f.env, aln)
      [] f.fn = "AddREFID" -> AddREFIDFilter(f.env, aln)

RECURSIVE Alone(_, _, _)
\* aln taken alone through the AlignmentFilters fs from the k-th on, none of
\* them keeping what another run left in its closure
Alone(fs, k, aln) ==
    IF k > Len(fs) THEN [aln |-> aln, keep |-> TRUE]
    ELSE LET r == Apply(fs[k], aln)
         IN  IF r.keep THEN Alone(fs, k + 1, r.aln)
             ELSE [aln |-> r.aln, keep |-> FALSE]

\* no step of the record phase changes the Header or a captured table
NoSharedWrite == HeaderPhaseOver => (header' = header /\ filters' = filters)

\* an Alignment that is through the chain is as it is when processed alone
SameAsAlone ==
    HeaderPhaseOver =>
        \A a \in DOMAIN alns :
            Finished(a) =>
                Alone(filters, 1, alns0[a]) = [aln |-> alns[a], keep |-> Kept(a)]

\* C8: after the header phase, workers may take different Alignments through
\* the AlignmentFilters in any interleaving: no step writes the Header or a
\* table captured in the header phase, and each Alignment is kept or dropped,
\* and changed, as when it is processed alone.
C8_RecordPhaseParallel == [][NoSharedWrite]_vars /\ []SameAsAlone

\* two Alignments are both between the dictionary filter and AddREFID
C8_Witness ==
    /\ HeaderPhaseOver
    /\ Len(filters) = 2
    /\ filters[1].fn = "ReplaceReferenceSequenceDictionary"
    /\ filters[2].fn = "AddREFID"
    /\ next = [a \in DOMAIN alns |-> 2]
    /\ dropped = [a \in DOMAIN alns |-> FALSE]

----------------------------------------------------------------------------
(* The split command.  cmd.pc is the step Split is about to take; it is    *)
(* "exited" after os.Exit and "returned" after a return.  cmd.checks holds *)
(* the sanity checks made so far, cmd.cramAccepted what                    *)
(* checkCramOutputOptions answered, cmd.resolved the number of paths       *)
(* internal.FullPathname resolved.                                         *)

\* everything but the split command
filterState == <<header, chain, ran, filters, alns, next, dropped, hist, alns0, id>>

\* the output paths given on the command line
OutputPaths == {"out/", "out", "/data/out/", "/data/out"}

\* filepath.Dir(path)
FilepathDir(path) ==
    CASE path = "out/" -> "out"
      [] path = "out" -> "."
      [] path = "/data/out/" -> "/data/out"
      [] path = "/data/out" -> "/data"

\* filepath.Clean(path)
FilepathClean(path) ==
    CASE path = "out/" -> "out"
      [] path = "out" -> "out"
      [] path = "/data/out/" -> "/data/out"
      [] path = "/data/out" -> "/data/out"

\* fmt.Fprint(os.Stderr, SplitHelp); os.Exit(code)
UsageAndExit(c, code) ==
    [c EXCEPT !.pc = "exited", !.usage = TRUE, !.code = code]

\* return err
ReturnError(c) == [c EXCEPT !.pc = "returned", !.err = TRUE]

\* lines 41-45
CheckArgs ==
    /\ cmd.pc = "args"
    /\ cmd' = IF cmd.nargs < 4 THEN UsageAndExit(cmd, 1)
              ELSE [cmd EXCEPT !.pc = "filenames"]
    /\ UNCHANGED filterState

\* lines 47-48: getFilename gives the name back, or prints the help and exits
GetFilenames ==
    /\ cmd.pc = "filenames"
    /\ \/ cmd' = [cmd EXCEPT !.pc = "parse"]
       \/ \E code \in {0, 1} : cmd' = UsageAndExit(cmd, code)
    /\ UNCHANGED filterState

\* lines 50-58: flags.Parse gives nil, flag.ErrHelp or another error
ParseFlags ==
    /\ cmd.pc = "parse"
    /\ \E err \in {"nil", "ErrHelp", "error"} :
          cmd' = IF err = "nil" THEN [cmd EXCEPT !.pc = "defaults"]
                 ELSE UsageAndExit(cmd, IF err # "ErrHelp" THEN 1 ELSE 0)
    /\ UNCHANGED filterState

\* lines 60-72; the input is [stem, ext], its name being stem.ext
Defaults ==
    /\ cmd.pc = "defaults"
    /\ cmd' = [cmd EXCEPT
                 !.pc = "cram",
                 !.outputPrefix = IF @ = "" THEN cmd.input.stem ELSE @,
                 !.outputType =
                    IF @ = ""
                    THEN IF cmd.input.ext \in {"sam", "bam", "cram"}
                         THEN cmd.input.ext
                         ELSE "sam"
                    ELSE @]
    /\ UNCHANGED filterState

\* lines 78-81: checkCramOutputOptions accepts the options or rejects them
CheckCram ==
    /\ cmd.pc = "cram"
    /\ \E success \in BOOLEAN :
          cmd' = [cmd EXCEPT !.pc = "path",
                             !.checks = @ \cup {"cram"},
                             !.cramAccepted = success,
                             !.sanityChecksFailed = ~success]
    /\ UNCHANGED filterState

\* line 83: the output path is not the path of a directory
NotADirectoryPath(output) == FilepathDir(output) # FilepathClean(output)

\* AfterPathCheck that assigns the result of the check
AfterPathCheckMutant(failed, output) == NotADirectoryPath(output)

\* lines 83-86: sanityChecksFailed after the check of the output path
AfterPathCheck(failed, output) ==
    IF NotADirectoryPath(output) THEN TRUE ELSE failed

CheckOutputPath ==
    /\ cmd.pc = "path"
    /\ cmd' = [cmd EXCEPT
                 !.pc = "threads",
                 !.checks = @ \cup {"path"},
                 !.sanityChecksFailed = AfterPathCheck(@, cmd.output)]
    /\ UNCHANGED filterState

\* lines 88-91: sanityChecksFailed after the check of nr-of-threads
AfterThreadsCheck(failed, nrOfThreads) ==
    IF nrOfThreads < 0 THEN TRUE ELSE failed

CheckThreads ==
    /\ cmd.pc = "threads"
    /\ cmd' = [cmd EXCEPT
                 !.pc = "gate",
                 !.checks = @ \cup {"threads"},
                 !.sanityChecksFailed = AfterThreadsCheck(@, cmd.nrOfThreads)]
    /\ UNCHANGED filterState

\* lines 93-96
ExitOnFailedChecks ==
    /\ cmd.pc = "gate"
    /\ cmd' = IF cmd.sanityChecksFailed THEN UsageAndExit(cmd, 1)
              ELSE [cmd EXCEPT !.pc = "fullInput"]
    /\ UNCHANGED filterState

\* lines 119-122: internal.FullPathname(input) gives the path or an error
FullInput ==
    /\ cmd.pc = "fullInput"
    /\ \E failed \in BOOLEAN :
          cmd' = IF failed THEN ReturnError(cmd)
                 ELSE [cmd EXCEPT !.pc = "fullOutput", !.resolved = @ + 1]
    /\ UNCHANGED filterState

\* lines 124-127
FullOutput ==
    /\ cmd.pc = "fullOutput"
    /\ \E failed \in BOOLEAN :
          cmd' = IF failed THEN ReturnError(cmd)
                 ELSE [cmd EXCEPT !.pc = "mkdir", !.resolved = @ + 1]
    /\ UNCHANGED filterState

\* lines 129-132: os.MkdirAll(output, 0700) creates the directory or fails
MkdirAll ==
    /\ cmd.pc = "mkdir"
    /\ \E failed \in BOOLEAN :
          cmd' = IF failed THEN [ReturnError(cmd) EXCEPT !.mkdirCalled = TRUE]
                 ELSE [cmd EXCEPT !.pc = "split", !.mkdirCalled = TRUE,
                                  !.dirCreated = TRUE]
    /\ UNCHANGED filterState

\* line 134: sam.SplitFilePerChromosome gives nil or an error
CallSplit ==
    /\ cmd.pc = "split"
    /\ \E failed \in BOOLEAN :
          cmd' = [cmd EXCEPT !.pc = "returned", !.splitCalled = TRUE,
                             !.err = failed]
    /\ UNCHANGED filterState

\* Split is called with these arguments
Started(nargs, input, output, outputPrefix, outputType, nrOfThreads) ==
    [pc |-> "args", nargs |-> nargs, input |-> input, output |-> output,
     outputPrefix |-> outputPrefix, outputType |-> outputType,
     nrOfThreads |-> nrOfThreads,
     checks |-> {}, cramAccepted |-> FALSE, sanityChecksFailed |-> FALSE,
     usage |-> FALSE, code |-> 0, err |-> FALSE, resolved |-> 0,
     mkdirCalled |-> FALSE, dirCreated |-> FALSE, splitCalled |-> FALSE]

InitSplit ==
    /\ header = EmptyHeader
    /\ chain = <<>>
    /\ ran = 0
    /\ filters = <<>>
    /\ hist = <<>>
    /\ id = ""
    /\ NoAlignments
    /\ cmd \in {Started(nargs, input, output, "", outputType, nrOfThreads) :
                  nargs \in {3, 4, 6},
                  input \in {[stem |-> "reads", ext |-> "cram"],
                             [stem |-> "reads", ext |-> "txt"]},
                  output \in OutputPaths,
                  outputType \in {"", "bam"},
                  nrOfThreads \in {-1, 0, 4}}

NextSplit ==
    \/ CheckArgs
    \/ GetFilenames
    \/ ParseFlags
    \/ Defaults
    \/ CheckCram
    \/ CheckOutputPath
    \/ CheckThreads
    \/ ExitOnFailedChecks
    \/ FullInput
    \/ FullOutput
    \/ MkdirAll
    \/ CallSplit

SpecSplit == InitSplit /\ [][NextSplit]_vars

\* the sanity checks made so far that failed
FailedChecks ==
    {check \in cmd.checks :
        CASE check = "cram" -> ~cmd.cramAccepted
          [] check = "path" -> cmd.output \in {"out", "/data/out"}
          [] check = "threads" -> cmd.nrOfThreads < 0}

\* C9: if a sanity check fails (the CRAM options are rejected, the output
\* path is not the path of a directory, nr-of-threads < 0), a later check
\* that passes does not clear the failure, and the process prints the usage
\* and exits with status 1 without creating the output directory or calling
\* SplitFilePerChromosome; that is called only after every check passed, both
\* paths were resolved and the directory was created.
C9_SanityChecks ==
    /\ cmd.checks # {} => (cmd.sanityChecksFailed <=> FailedChecks # {})
    /\ FailedChecks # {} =>
          /\ cmd.pc \in {"path", "threads", "gate", "exited"}
          /\ cmd.pc = "exited" => (cmd.usage /\ cmd.code = 1)
          /\ ~cmd.mkdirCalled /\ ~cmd.dirCreated /\ ~cmd.splitCalled
    /\ cmd.splitCalled =>
          /\ cmd.checks = {"cram", "path", "threads"}
          /\ FailedChecks = {}
          /\ cmd.resolved = 2
          /\ cmd.dirCreated

\* the CRAM options were rejected, the two later checks passed, and the
\* process exited with status 1
C9_Witness ==
    /\ cmd.pc = "exited"
    /\ cmd.checks = {"cram", "path", "threads"}
    /\ FailedChecks = {"cram"}
    /\ cmd.usage /\ cmd.code = 1

----------------------------------------------------------------------------
(* Every filter and the split command together.                            *)

Init ==
    \/ InitPG
    \/ InitDict
    \/ InitRename
    \/ InitREFID
    \/ InitStrict
    \/ InitChain
    \/ InitPar
    \/ InitSplit

Next == NextPar \/ NextSplit

Spec == Init /\ [][Next]_vars
====
